---- MODULE Spec2Model ----
(***************************************************************************)
(* A model of the linking core of the bundler, in two parts.                *)
(*                                                                         *)
(* The execution-order resolver, LinkStage::sort_modules                   *)
(* (crates/rolldown/src/stages/link_stage/sort_modules.rs): an             *)
(* explicit-stack depth-first traversal of the static-import graph that    *)
(* numbers the modules in post-order and collects the circular import      *)
(* chains it meets.                                                        *)
(*                                                                         *)
(* The module scanner, AstScanner (crates/rolldown/src/ast_scanner/        *)
(* mod.rs): one scan of the module declarations of a program, which        *)
(* collects the import records, the named imports and exports, the         *)
(* exports kind and the usage of the dynamic imports of the module.        *)
(***************************************************************************)
EXTENDS Integers, Sequences, FiniteSets, TLC

VARIABLES
  module_table,                  \* normal_modules / external_modules, each with its exec_order
  entries,                       \* self.entries: the ids of the entry modules, in declared order
  execution_stack,               \* Vec<Status>, the top is the last element
  stack_indexes_of_executing_id, \* FxHashMap<ModuleId, usize>
  executed_ids,                  \* FxHashSet<ModuleId>
  sorted_modules,                \* the local Vec<NormalModuleId>
  next_exec_order,               \* the counter
  circular_dependencies,         \* FxHashSet<Box<[ModuleId]>>
  warnings,                      \* self.warnings
  self_sorted_modules,           \* self.sorted_modules
  failed_asserts,                \* the assertions and slice bounds found false so far
  visit_log,                     \* history: the ids in the order line 72 inserted them
  iterations,                    \* history: the iterations of the while loop so far
  scanner,                       \* the AstScanner (self) of the module being scanned
  scan_log,                      \* history: what the scanner visited so far, in order
  pc                             \* sort_modules: "loop" in the while loop, "done" after
                                 \* the return; scan: "scan", then "returned" or "panicked"

vars == <<module_table, entries, execution_stack, stack_indexes_of_executing_id,
          executed_ids, sorted_modules, next_exec_order, circular_dependencies,
          warnings, self_sorted_modules, failed_asserts, visit_log, iterations,
          scanner, scan_log, pc>>

(***************************************************************************)
(* Bounds of the model and constants of the program.                       *)
(***************************************************************************)
\* Two families of inputs: small tables with several import records, and wider
\* tables with more modules and entries but fewer import records and no
\* external module.
NumNormal == 2      \* small tables: normal modules, the runtime module included
MaxRecords == 2     \* small tables: import records of the whole table
MaxEntries == 1     \* small tables: length of the entry list
WideNormal == 3     \* wide tables: normal modules, the runtime module included
WideRecords == 1    \* wide tables: import records of the whole table
WideEntries == 2    \* wide tables: length of the entry list
MaxCycleLen == 3    \* cycle tables: modules of the cycle
MaxExtra == 1       \* cycle tables: import records beside those of the cycle
NumExternal == 1    \* external modules of a table

\* u32::MAX, the exec_order of a module that has none yet.  The integers of the
\* model checker end at 2^31 - 1, which stands for it here: the counter stays
\* below the number of modules of the table, far from either value.
U32Max == 2147483647
RuntimeId == 0         \* self.runtime.id(): the index of the runtime module

(***************************************************************************)
(* Module ids, import records, stack entries.                              *)
(***************************************************************************)
Normal(i) == <<"Normal", i>>
External(i) == <<"External", i>>

IsNormal(id) == id[1] = "Normal"

NormalIds(n) == 0 .. (n - 1)
ModuleIds(n, k) == {Normal(i) : i \in 0 .. (n - 1)} \cup {External(i) : i \in 0 .. (k - 1)}

ImportKinds == {"Import", "DynamicImport"}

\* ImportKind::is_static
IsStatic(kind) == kind = "Import"

ToBeExecuted(id) == [status |-> "ToBeExecuted", id |-> id]
WaitForExit(id) == [status |-> "WaitForExit", id |-> id]

Reverse(s) == [i \in 1 .. Len(s) |-> s[Len(s) + 1 - i]]

\* .map(|entry| Status::ToBeExecuted(entry.id.into()))
EntryPushes(es) == [i \in 1 .. Len(es) |-> ToBeExecuted(Normal(es[i]))]

\* .map(Status::ToBeExecuted)
Pushes(ids) == [i \in 1 .. Len(ids) |-> ToBeExecuted(ids[i])]

\* .map(|rec| rec.resolved_module)
ResolvedModules(records) == [i \in 1 .. Len(records) |-> records[i].resolved_module]

\* the ids of a run of stack entries
IdsOf(actions) == [i \in 1 .. Len(actions) |-> actions[i].id]

Range(s) == {s[i] : i \in 1 .. Len(s)}

(***************************************************************************)
(* The module table.                                                       *)
(***************************************************************************)
NormalsOf(mt) == {Normal(i) : i \in DOMAIN mt.normal_modules}
ExternalsOf(mt) == {External(i) : i \in DOMAIN mt.external_modules}
ModulesOf(mt) == NormalsOf(mt) \cup ExternalsOf(mt)

ExecOrder(mt, id) ==
  IF IsNormal(id) THEN mt.normal_modules[id[2]].exec_order
  ELSE mt.external_modules[id[2]].exec_order

ImportRecords(mt, id) ==
  IF IsNormal(id) THEN mt.normal_modules[id[2]].import_records ELSE <<>>

\* module_table.normal_modules[..].exec_order = next_exec_order, or the external one
SetExecOrder(mt, id, order) ==
  IF IsNormal(id)
    THEN [mt EXCEPT !.normal_modules[id[2]].exec_order = order]
    ELSE [mt EXCEPT !.external_modules[id[2]].exec_order = order]

\* A freshly assembled table: no module has an execution order yet.
NewTable(records, k) ==
  [normal_modules |-> [i \in DOMAIN records |->
                         [import_records |-> records[i], exec_order |-> U32Max]],
   external_modules |-> [i \in 0 .. (k - 1) |-> [exec_order |-> U32Max]]]

(***************************************************************************)
(* The pieces of sort_modules.  A loop state s is the record of the locals *)
(* of the function together with the module table it holds the lock of.    *)
(***************************************************************************)

\* SeedStack with the runtime module pushed first, so that it is popped last
SeedStackRuntimeBelow(es, runtime) ==
  <<ToBeExecuted(Normal(runtime))>>
    \o EntryPushes(Reverse(es))

\* SeedStack without the rev() of the entries
SeedStackEntriesNotReversed(es, runtime) ==
  EntryPushes(es)
    \o <<ToBeExecuted(Normal(runtime))>>

\* lines 34-40: the entries in reverse, then the runtime module on top
SeedStack(es, runtime) ==
  EntryPushes(Reverse(es))
    \o <<ToBeExecuted(Normal(runtime))>>

\* StaticTargets without the is_static filter
StaticTargetsOfAllKinds(import_records) ==
  ResolvedModules(import_records)

\* lines 84-87: the resolved modules of the static import records, in record order
StaticTargets(import_records) ==
  ResolvedModules(SelectSeq(import_records, LAMBDA rec : IsStatic(rec.kind)))

\* DependencyPushes without the rev() of the targets
DependencyPushesNotReversed(import_records) ==
  Pushes(StaticTargets(import_records))

\* DependencyPushes that stops after the first static import record
DependencyPushesFirstOnly(import_records) ==
  IF StaticTargets(import_records) = <<>> THEN <<>>
  ELSE <<ToBeExecuted(StaticTargets(import_records)[1])>>

\* lines 82-90: what the first visit of a normal module pushes
DependencyPushes(import_records) ==
  Pushes(Reverse(StaticTargets(import_records)))

\* CycleChain with the arms of the match swapped: the ToBeExecuted ids are kept
CycleChainOfToBeExecuted(stack, index, id) ==
  IdsOf(SelectSeq(SubSeq(stack, index + 1, Len(stack)),
                  LAMBDA action : action.status = "ToBeExecuted"))
    \o <<id>>

\* CycleChain that takes every entry of the slice, whatever its status
CycleChainOfAllEntries(stack, index, id) ==
  IdsOf(SubSeq(stack, index + 1, Len(stack))) \o <<id>>

\* lines 58-66: the WaitForExit ids of execution_stack[index..], then id
CycleChain(stack, index, id) ==
  IdsOf(SelectSeq(SubSeq(stack, index + 1, Len(stack)),
                  LAMBDA action : action.status = "WaitForExit"))
    \o <<id>>

MapInsert(m, key, value) == (key :> value) @@ m
\* MapRemove that leaves the key in the map
MapRemoveKeepsKey(m, key) == m

MapRemove(m, key) == [x \in (DOMAIN m) \ {key} |-> m[x]]

\* lines 34-50: the locals before the loop
InitLoop(mt, es) ==
  [module_table |-> mt,
   execution_stack |-> SeedStack(es, RuntimeId),
   stack_indexes_of_executing_id |-> <<>>,
   executed_ids |-> {},
   sorted_modules |-> <<>>,
   next_exec_order |-> 0,
   circular_dependencies |-> {},
   failed_asserts |-> {},
   visit_log |-> <<>>,
   iterations |-> 0]

\* line 52: execution_stack.pop()
Top(s) == s.execution_stack[Len(s.execution_stack)]
Popped(s) ==
  [s EXCEPT !.execution_stack = SubSeq(@, 1, Len(@) - 1),
            !.iterations = @ + 1]

\* OnExecuting that gives the traversal up at the cycle it found
OnExecutingAborts(s, id) ==
  LET index == s.stack_indexes_of_executing_id[id]
      cycles == CycleChain(s.execution_stack, index, id)
  IN [s EXCEPT !.circular_dependencies = @ \cup {cycles},
               !.execution_stack = <<>>]

\* lines 56-67: ToBeExecuted(id) popped while id is executing; s is the state after the pop
OnExecuting(s, id) ==
  LET index == s.stack_indexes_of_executing_id[id]
      cycles == CycleChain(s.execution_stack, index, id)
  IN [s EXCEPT !.circular_dependencies = @ \cup {cycles},
               !.failed_asserts =
                  IF index > Len(s.execution_stack)
                    THEN @ \cup {"execution_stack[index..]"} ELSE @]

\* OnFirstVisit with WaitForExit(id) pushed after the dependencies, on top of them
OnFirstVisitExitOnTop(s, id) ==
  LET deps == IF IsNormal(id)
                THEN DependencyPushes(ImportRecords(s.module_table, id))
                ELSE <<>>
      pushed == Append(s.execution_stack \o deps, WaitForExit(id))
  IN [s EXCEPT
        !.executed_ids = @ \cup {id},
        !.visit_log = Append(@, id),
        !.failed_asserts =
           IF id \in DOMAIN s.stack_indexes_of_executing_id
             THEN @ \cup {"not executing twice"} ELSE @,
        !.stack_indexes_of_executing_id = MapInsert(@, id, Len(pushed) - 1),
        !.execution_stack = pushed]

\* OnFirstVisit that records the length of the stack as the index of the
\* WaitForExit entry, one more than its position
OnFirstVisitIndexIsLen(s, id) ==
  LET pushed == Append(s.execution_stack, WaitForExit(id))
      deps == IF IsNormal(id)
                THEN DependencyPushes(ImportRecords(s.module_table, id))
                ELSE <<>>
  IN [s EXCEPT
        !.executed_ids = @ \cup {id},
        !.visit_log = Append(@, id),
        !.failed_asserts =
           IF id \in DOMAIN s.stack_indexes_of_executing_id
             THEN @ \cup {"not executing twice"} ELSE @,
        !.stack_indexes_of_executing_id = MapInsert(@, id, Len(pushed)),
        !.execution_stack = pushed \o deps]

\* OnFirstVisit without the insert into executed_ids, left to the exit
OnFirstVisitNotMarked(s, id) ==
  LET pushed == Append(s.execution_stack, WaitForExit(id))
      deps == IF IsNormal(id)
                THEN DependencyPushes(ImportRecords(s.module_table, id))
                ELSE <<>>
  IN [s EXCEPT
        !.visit_log = Append(@, id),
        !.failed_asserts =
           IF id \in DOMAIN s.stack_indexes_of_executing_id
             THEN @ \cup {"not executing twice"} ELSE @,
        !.stack_indexes_of_executing_id = MapInsert(@, id, Len(pushed) - 1),
        !.execution_stack = pushed \o deps]

\* OnFirstVisit that records the index after the dependencies are pushed
OnFirstVisitIndexAfterDeps(s, id) ==
  LET pushed == Append(s.execution_stack, WaitForExit(id))
      deps == IF IsNormal(id)
                THEN DependencyPushes(ImportRecords(s.module_table, id))
                ELSE <<>>
  IN [s EXCEPT
        !.executed_ids = @ \cup {id},
        !.visit_log = Append(@, id),
        !.failed_asserts =
           IF id \in DOMAIN s.stack_indexes_of_executing_id
             THEN @ \cup {"not executing twice"} ELSE @,
        !.stack_indexes_of_executing_id = MapInsert(@, id, Len(pushed \o deps) - 1),
        !.execution_stack = pushed \o deps]

\* lines 72-91: ToBeExecuted(id) popped for an id not in executed_ids
OnFirstVisit(s, id) ==
  LET pushed == Append(s.execution_stack, WaitForExit(id))
      deps == IF IsNormal(id)
                THEN DependencyPushes(ImportRecords(s.module_table, id))
                ELSE <<>>
  IN [s EXCEPT
        !.executed_ids = @ \cup {id},
        !.visit_log = Append(@, id),
        !.failed_asserts =
           IF id \in DOMAIN s.stack_indexes_of_executing_id
             THEN @ \cup {"not executing twice"} ELSE @,
        !.stack_indexes_of_executing_id = MapInsert(@, id, Len(pushed) - 1),
        !.execution_stack = pushed \o deps]

\* OnWaitForExit with the counter advanced in the Normal arm only
OnWaitForExitExternalKeepsCounter(s, id) ==
  [s EXCEPT
     !.executed_ids = @ \cup {id},
     !.failed_asserts =
        (IF ExecOrder(s.module_table, id) # U32Max
           THEN @ \cup {"exec_order == u32::MAX"} ELSE @)
        \cup (IF id \notin DOMAIN s.stack_indexes_of_executing_id
                THEN {"contains_key"} ELSE {}),
     !.module_table = SetExecOrder(@, id, s.next_exec_order),
     !.sorted_modules = IF IsNormal(id) THEN Append(@, id[2]) ELSE @,
     !.next_exec_order = IF IsNormal(id) THEN @ + 1 ELSE @,
     !.stack_indexes_of_executing_id = MapRemove(@, id)]

\* OnWaitForExit with the push to sorted_modules outside the match on the id
OnWaitForExitPushesExternal(s, id) ==
  [s EXCEPT
     !.executed_ids = @ \cup {id},
     !.failed_asserts =
        (IF ExecOrder(s.module_table, id) # U32Max
           THEN @ \cup {"exec_order == u32::MAX"} ELSE @)
        \cup (IF id \notin DOMAIN s.stack_indexes_of_executing_id
                THEN {"contains_key"} ELSE {}),
     !.module_table = SetExecOrder(@, id, s.next_exec_order),
     !.sorted_modules = Append(@, id[2]),
     !.next_exec_order = @ + 1,
     !.stack_indexes_of_executing_id = MapRemove(@, id)]

\* lines 95-111: WaitForExit(id) popped
OnWaitForExit(s, id) ==
  [s EXCEPT
     !.executed_ids = @ \cup {id},
     !.failed_asserts =
        (IF ExecOrder(s.module_table, id) # U32Max
           THEN @ \cup {"exec_order == u32::MAX"} ELSE @)
        \cup (IF id \notin DOMAIN s.stack_indexes_of_executing_id
                THEN {"contains_key"} ELSE {}),
     !.module_table = SetExecOrder(@, id, s.next_exec_order),
     !.sorted_modules = IF IsNormal(id) THEN Append(@, id[2]) ELSE @,
     !.next_exec_order = @ + 1,
     !.stack_indexes_of_executing_id = MapRemove(@, id)]

\* LoopBody that asks the index map alone whether the module was seen
LoopBodyWithoutExecutedIds(s) ==
  LET status == Top(s)
      id == status.id
      rest == Popped(s)
  IN IF status.status = "ToBeExecuted"
       THEN IF id \in DOMAIN rest.stack_indexes_of_executing_id
              THEN OnExecuting(rest, id)
              ELSE OnFirstVisit(rest, id)
       ELSE OnWaitForExit(rest, id)

\* lines 52-113: one iteration of the while loop
LoopBody(s) ==
  LET status == Top(s)
      id == status.id
      rest == Popped(s)
  IN IF status.status = "ToBeExecuted"
       THEN IF id \in rest.executed_ids
              THEN IF id \in DOMAIN rest.stack_indexes_of_executing_id
                     THEN OnExecuting(rest, id)
                     ELSE rest
              ELSE OnFirstVisit(rest, id)
       ELSE OnWaitForExit(rest, id)

\* lines 52-114: the while loop
RECURSIVE RunLoop(_)
RunLoop(s) ==
  IF s.execution_stack = <<>> THEN s ELSE RunLoop(LoopBody(s))

\* lines 119-123: the paths of a warning (a module is named by its id)
CyclePaths(cycle) ==
  LET normal == SelectSeq(cycle, IsNormal)
  IN [i \in 1 .. Len(normal) |-> normal[i][2]]

\* lines 116-118: circular_dependencies.into_iter().collect(), in any iteration order
IterationOrders(set) ==
  {order \in [1 .. Cardinality(set) -> set] : Range(order) = set}

\* line 130: self.sorted_modules.first().copied() == Some(self.runtime.id())
RuntimeIsFirst(sorted, runtime) ==
  sorted # <<>> /\ sorted[1] = runtime

(***************************************************************************)
(* The inputs: module tables and entry lists within the bounds.            *)
(***************************************************************************)
ImportRecordsOver(n, k) ==
  [kind : ImportKinds, resolved_module : ModuleIds(n, k)]

\* The import-record lists of i modules, with at most budget records in all.
RECURSIVE RecordLists(_, _, _)
RecordLists(i, recs, budget) ==
  IF i = 0 THEN {<<>>}
  ELSE UNION {{Append(lists, list) :
                 lists \in RecordLists(i - 1, recs, budget - len),
                 list \in [1 .. len -> recs]} : len \in 0 .. budget}

ModuleTables(n, k, budget) ==
  {NewTable([i \in NormalIds(n) |-> lists[i + 1]], k) :
     lists \in RecordLists(n, ImportRecordsOver(n, k), budget)}

EntryLists(n, max) ==
  UNION {[1 .. len -> NormalIds(n)] : len \in 0 .. max}

(***************************************************************************)
(* Cycle tables: the static imports form one simple cycle through the sole *)
(* entry, the runtime module imports nothing statically, and up to         *)
(* MaxExtra further records repeat a static record or are dynamic.         *)
(***************************************************************************)
\* The cycles through the modules 1 .. len: cycle[1] -> cycle[2] -> ... -> cycle[1].
CycleOrders(len) ==
  {cycle \in [1 .. len -> 1 .. len] : \A i, j \in 1 .. len : cycle[i] = cycle[j] => i = j}

CycleRecords(cycle) ==
  [m \in 0 .. Len(cycle) |->
     IF m = 0 THEN <<>>
     ELSE LET at == CHOOSE i \in 1 .. Len(cycle) : cycle[i] = m
          IN <<[kind |-> "Import",
                resolved_module |-> Normal(cycle[(at % Len(cycle)) + 1])]>>]

InsertAt(list, at, rec) ==
  SubSeq(list, 1, at) \o <<rec>> \o SubSeq(list, at + 1, Len(list))

\* The record lists with one more record that leaves the static-import graph as it is.
WithOneMore(records, k) ==
  {[records EXCEPT ![m] = InsertAt(@, at, rec)] :
     <<m, at, rec>> \in
       {x \in (DOMAIN records) \X (0 .. MaxCycleLen + MaxExtra)
                 \X ImportRecordsOver(Cardinality(DOMAIN records), k) :
          /\ x[2] <= Len(records[x[1]])
          /\ IsStatic(x[3].kind) => x[3] \in Range(records[x[1]])}}

RECURSIVE WithExtras(_, _, _)
WithExtras(records, k, extra) ==
  IF extra = 0 THEN {records}
  ELSE {records} \cup UNION {WithExtras(more, k, extra - 1) : more \in WithOneMore(records, k)}

(***************************************************************************)
(* The state machine: sort_modules on a table and an entry list.           *)
(***************************************************************************)
\* No module is being scanned while sort_modules runs.
NoScanner == [idx |-> "none"]

State ==
  [module_table |-> module_table,
   execution_stack |-> execution_stack,
   stack_indexes_of_executing_id |-> stack_indexes_of_executing_id,
   executed_ids |-> executed_ids,
   sorted_modules |-> sorted_modules,
   next_exec_order |-> next_exec_order,
   circular_dependencies |-> circular_dependencies,
   failed_asserts |-> failed_asserts,
   visit_log |-> visit_log,
   iterations |-> iterations]

Becomes(s) ==
  /\ module_table' = s.module_table
  /\ execution_stack' = s.execution_stack
  /\ stack_indexes_of_executing_id' = s.stack_indexes_of_executing_id
  /\ executed_ids' = s.executed_ids
  /\ sorted_modules' = s.sorted_modules
  /\ next_exec_order' = s.next_exec_order
  /\ circular_dependencies' = s.circular_dependencies
  /\ failed_asserts' = s.failed_asserts
  /\ visit_log' = s.visit_log
  /\ iterations' = s.iterations
  /\ UNCHANGED <<scanner, scan_log>>

Start(mt, es) ==
  /\ entries = es
  /\ module_table = mt
  /\ execution_stack = InitLoop(mt, es).execution_stack
  /\ stack_indexes_of_executing_id = InitLoop(mt, es).stack_indexes_of_executing_id
  /\ executed_ids = InitLoop(mt, es).executed_ids
  /\ sorted_modules = InitLoop(mt, es).sorted_modules
  /\ next_exec_order = InitLoop(mt, es).next_exec_order
  /\ circular_dependencies = InitLoop(mt, es).circular_dependencies
  /\ failed_asserts = InitLoop(mt, es).failed_asserts
  /\ visit_log = InitLoop(mt, es).visit_log
  /\ iterations = InitLoop(mt, es).iterations
  /\ warnings = <<>>
  /\ self_sorted_modules = <<>>
  /\ scanner = NoScanner
  /\ scan_log = <<>>
  /\ pc = "loop"

Init ==
  \/ \E mt \in ModuleTables(NumNormal, NumExternal, MaxRecords) :
       \E es \in EntryLists(NumNormal, MaxEntries) :
         Start(mt, es)
  \/ \E mt \in ModuleTables(WideNormal, 0, WideRecords) :
       \E es \in EntryLists(WideNormal, WideEntries) :
         Start(mt, es)

InitCycle ==
  \E len \in 1 .. MaxCycleLen :
    \E cycle \in CycleOrders(len) :
      \E records \in WithExtras(CycleRecords(cycle), NumExternal, MaxExtra) :
        Start(NewTable(records, NumExternal), <<cycle[1]>>)

InLoop == pc = "loop" /\ execution_stack # <<>>

\* lines 54-67: a ToBeExecuted entry of a module that is executing
PopExecuting ==
  /\ InLoop
  /\ Top(State).status = "ToBeExecuted"
  /\ Top(State).id \in executed_ids
  /\ Top(State).id \in DOMAIN stack_indexes_of_executing_id
  /\ Becomes(OnExecuting(Popped(State), Top(State).id))
  /\ UNCHANGED <<entries, warnings, self_sorted_modules, pc>>

\* lines 54-55, 68-70: a ToBeExecuted entry of a module executed in another chain
PopExecuted ==
  /\ InLoop
  /\ Top(State).status = "ToBeExecuted"
  /\ Top(State).id \in executed_ids
  /\ Top(State).id \notin DOMAIN stack_indexes_of_executing_id
  /\ Becomes(Popped(State))
  /\ UNCHANGED <<entries, warnings, self_sorted_modules, pc>>

\* lines 54-55, 71-92: a ToBeExecuted entry of a module seen for the first time
PopFirstVisit ==
  /\ InLoop
  /\ Top(State).status = "ToBeExecuted"
  /\ Top(State).id \notin executed_ids
  /\ Becomes(OnFirstVisit(Popped(State), Top(State).id))
  /\ UNCHANGED <<entries, warnings, self_sorted_modules, pc>>

\* lines 94-112: a WaitForExit entry
PopWaitForExit ==
  /\ InLoop
  /\ Top(State).status = "WaitForExit"
  /\ Becomes(OnWaitForExit(Popped(State), Top(State).id))
  /\ UNCHANGED <<entries, warnings, self_sorted_modules, pc>>

\* lines 116-134: the warnings, self.sorted_modules, the closing assertion
Return ==
  /\ pc = "loop"
  /\ execution_stack = <<>>
  /\ \E order \in IterationOrders(circular_dependencies) :
       warnings' = warnings \o [i \in 1 .. Len(order) |-> CyclePaths(order[i])]
  /\ self_sorted_modules' = sorted_modules
  /\ failed_asserts' =
       IF RuntimeIsFirst(sorted_modules, RuntimeId)
         THEN failed_asserts
         ELSE failed_asserts \cup {"runtime first"}
  /\ pc' = "done"
  /\ UNCHANGED <<module_table, entries, execution_stack,
                 stack_indexes_of_executing_id, executed_ids, sorted_modules,
                 next_exec_order, circular_dependencies, visit_log, iterations,
                 scanner, scan_log>>

Next ==
  \/ PopExecuting
  \/ PopExecuted
  \/ PopFirstVisit
  \/ PopWaitForExit
  \/ Return

Spec == Init /\ [][Next]_vars

SpecCycle == InitCycle /\ [][Next]_vars


(***************************************************************************)
(* The static-import graph of a module table, as the claims speak of it.   *)
(***************************************************************************)
StaticImports(mt, id) ==
  {rec.resolved_module :
     rec \in {r \in Range(ImportRecords(mt, id)) : IsStatic(r.kind)}}

\* The modules reachable from the set through zero or more static imports.
RECURSIVE Reach(_, _)
Reach(mt, set) ==
  LET more == set \cup UNION {StaticImports(mt, id) : id \in set}
  IN IF more = set THEN set ELSE Reach(mt, more)

\* id lies on a cycle of static imports (a static import of itself included).
OnCycle(mt, id) == \E d \in StaticImports(mt, id) : id \in Reach(mt, {d})

Acyclic(mt) == \A id \in ModulesOf(mt) : ~OnCycle(mt, id)

\* The runtime module and the entries: where the traversal starts.
Roots == {Normal(RuntimeId)} \cup {Normal(entries[i]) : i \in 1 .. Len(entries)}

Assigned(id) == ExecOrder(module_table, id) # U32Max

AssignedModules == {id \in ModulesOf(module_table) : Assigned(id)}

Done == pc = "done"

\* The position of a normal module in self.sorted_modules (0 when absent).
SortedIndex(id) ==
  IF \E i \in 1 .. Len(self_sorted_modules) : self_sorted_modules[i] = id[2]
    THEN CHOOSE i \in 1 .. Len(self_sorted_modules) : self_sorted_modules[i] = id[2]
    ELSE 0

(***************************************************************************)
(* C1: on a table whose static-import graph is acyclic, when sort_modules  *)
(* has returned every visited module has a strictly larger execution order *)
(* than each module it statically imports, and a normal module comes after *)
(* each normal module it imports in the sorted list.                       *)
(***************************************************************************)
C1_DependenciesFirst ==
  (Done /\ Acyclic(module_table)) =>
    \A id \in executed_ids : \A d \in StaticImports(module_table, id) :
      /\ Assigned(id)
      /\ ExecOrder(module_table, d) < ExecOrder(module_table, id)
      /\ IsNormal(d) =>
           /\ SortedIndex(d) > 0
           /\ SortedIndex(d) < SortedIndex(id)

\* An acyclic table in which an entry other than the runtime module was visited
\* and statically imports a normal module.
C1_Witness ==
  /\ Done
  /\ Acyclic(module_table)
  /\ \E id \in executed_ids \ {Normal(RuntimeId)} :
       \E d \in StaticImports(module_table, id) : IsNormal(d)

(***************************************************************************)
(* C2: when sort_modules has returned, the execution orders of the N       *)
(* modules that received one, normal and external together, are exactly    *)
(* the numbers 0 .. N-1, each given to one module.                         *)
(***************************************************************************)
C2_OrdersDense ==
  Done =>
    LET orders == {ExecOrder(module_table, id) : id \in AssignedModules}
    IN /\ orders = 0 .. (Cardinality(AssignedModules) - 1)
       /\ \A a, b \in AssignedModules :
            ExecOrder(module_table, a) = ExecOrder(module_table, b) => a = b

\* Two normal modules and an external one have all received an order.
C2_Witness ==
  /\ Done
  /\ Cardinality(AssignedModules) >= 3
  /\ \E id \in AssignedModules : ~IsNormal(id)

(***************************************************************************)
(* C3 as stated: when sort_modules has returned, every module of the       *)
(* table, normal or external, has an execution order.                      *)
(***************************************************************************)
C3_AllAssigned ==
  Done => \A id \in ModulesOf(module_table) : Assigned(id)

(***************************************************************************)
(* C3 as amended: when sort_modules has returned, a module has an          *)
(* execution order exactly when it is reachable through static imports     *)
(* from the runtime module or an entry; every other module of the table is *)
(* left at u32::MAX.                                                       *)
(***************************************************************************)
C3_ReachableAssigned ==
  Done =>
    \A id \in ModulesOf(module_table) :
      Assigned(id) <=> id \in Reach(module_table, Roots)

\* Some module is reached only through an import, and some module is not reached.
C3_Witness ==
  /\ Done
  /\ \E id \in AssignedModules : id \notin Roots
  /\ \E id \in ModulesOf(module_table) : ~Assigned(id)

RuntimeImportsNoOther ==
  StaticImports(module_table, Normal(RuntimeId)) \subseteq {Normal(RuntimeId)}

C5_WarningIffCycle ==
  Done =>
    (warnings # <<>> <=>
       \E id \in Reach(module_table, Roots) : OnCycle(module_table, id))

\* A warning was pushed for a cycle through two modules.
C5_Witness ==
  /\ Done
  /\ warnings # <<>>
  /\ \E id \in Reach(module_table, Roots) :
       \E d \in StaticImports(module_table, id) :
         d # id /\ id \in Reach(module_table, {d})

(***************************************************************************)
(* C7: on every table and entry list, whatever static cycles it has, the   *)
(* work loop terminates with an empty work stack, and every module whose   *)
(* WaitForExit entry was pushed is given an execution order: a detected    *)
(* cycle does not prevent it.  Termination is stated with a bound: every   *)
(* iteration pops one entry, and the iterations made and the entries still *)
(* on the stack never exceed a number fixed by the table and the entries.  *)
(***************************************************************************)
\* The static import records of the normal modules 0 .. n-1.
RECURSIVE StaticRecords(_, _)
StaticRecords(mt, n) ==
  IF n = 0 THEN 0
  ELSE Len(StaticTargets(mt.normal_modules[n - 1].import_records))
         + StaticRecords(mt, n - 1)

\* Every push is popped once: the seeds, one WaitForExit for a module at most,
\* one ToBeExecuted for a static record at most.
IterationBound ==
  1 + Len(entries) + Cardinality(ModulesOf(module_table))
    + StaticRecords(module_table, Cardinality(DOMAIN module_table.normal_modules))

ExitPending ==
  {id \in ModulesOf(module_table) : WaitForExit(id) \in Range(execution_stack)}

C7_LoopTerminates ==
  /\ iterations + Len(execution_stack) <= IterationBound
  /\ \A id \in executed_ids : Assigned(id) \/ id \in ExitPending
  /\ ExitPending \subseteq executed_ids
  /\ Done =>
       /\ execution_stack = <<>>
       /\ \A id \in executed_ids : Assigned(id)

\* A cycle was found, and sort_modules returned with every visited module ordered.
C7_Witness ==
  /\ Done
  /\ execution_stack = <<>>
  /\ circular_dependencies # {}
  /\ Cardinality(executed_ids) >= 2
  /\ \A id \in executed_ids : Assigned(id)

(***************************************************************************)
(* C6: on a table whose static imports form a single simple cycle          *)
(* A -> B -> C -> A (or any other single simple cycle), with A the sole    *)
(* entry and a runtime module that imports nothing statically,             *)
(* sort_modules terminates, the runtime module and the modules of the      *)
(* cycle receive pairwise distinct execution orders, and exactly one       *)
(* circular-dependency warning is pushed, whose named modules are exactly  *)
(* the modules of the cycle.                                               *)
(***************************************************************************)
\* The modules with a static import: on a cycle table, the modules of the cycle.
Importers(mt) == {id \in ModulesOf(mt) : StaticImports(mt, id) # {}}

IsSingleSimpleCycle(mt, es) ==
  /\ Len(es) = 1
  /\ Normal(es[1]) \in Importers(mt)
  /\ Normal(RuntimeId) \notin Importers(mt)
  /\ Importers(mt) = Reach(mt, {Normal(es[1])})
  /\ \A id \in Importers(mt) : Cardinality(StaticImports(mt, id)) = 1

C6_SingleCycle ==
  /\ iterations + Len(execution_stack) <= IterationBound
  /\ (Done /\ IsSingleSimpleCycle(module_table, entries)) =>
       LET members == Importers(module_table) \cup {Normal(RuntimeId)}
       IN /\ execution_stack = <<>>
          /\ \A id \in members : Assigned(id)
          /\ \A a, b \in members :
               ExecOrder(module_table, a) = ExecOrder(module_table, b) => a = b
          /\ Len(warnings) = 1
          /\ {Normal(i) : i \in Range(warnings[1])} = Importers(module_table)

\* The cycle A -> B -> C -> A, ordered and warned about once.
C6_Witness ==
  /\ Done
  /\ IsSingleSimpleCycle(module_table, entries)
  /\ Cardinality(Importers(module_table)) = 3
  /\ Len(warnings) = 1
  /\ \A id \in Importers(module_table) : Assigned(id)

(***************************************************************************)
(* C8: the non-static import records have no effect on the result: when    *)
(* sort_modules has returned, the execution orders, the sorted list and    *)
(* the set of cycle warnings are those sort_modules produces on the same   *)
(* table with every non-static record removed; a cycle closed only through *)
(* a dynamic import gives no warning.                                      *)
(***************************************************************************)
\* The table before sort_modules, with the dynamic import records taken out.
WithoutDynamicImports(mt) ==
  NewTable([i \in DOMAIN mt.normal_modules |->
              SelectSeq(mt.normal_modules[i].import_records,
                        LAMBDA rec : IsStatic(rec.kind))],
           Cardinality(DOMAIN mt.external_modules))

\* What sort_modules leaves behind: orders, sorted list, set of warnings.
ResultOf(s) ==
  [orders |-> [id \in ModulesOf(s.module_table) |-> ExecOrder(s.module_table, id)],
   sorted |-> s.sorted_modules,
   cycles |-> {CyclePaths(cycle) : cycle \in s.circular_dependencies}]

C8_DynamicImportsIgnored ==
  Done =>
    /\ Range(warnings) = ResultOf(State).cycles
    /\ Len(warnings) = Cardinality(circular_dependencies)
    /\ self_sorted_modules = ResultOf(State).sorted
    /\ ResultOf(State) =
         ResultOf(RunLoop(InitLoop(WithoutDynamicImports(module_table), entries)))

\* A visited module dynamically imports another module that statically reaches
\* it back, and no warning was pushed.
C8_Witness ==
  /\ Done
  /\ warnings = <<>>
  /\ \E id \in executed_ids :
       \E rec \in Range(ImportRecords(module_table, id)) :
         /\ ~IsStatic(rec.kind)
         /\ rec.resolved_module # id
         /\ rec.resolved_module \in executed_ids
         /\ id \in Reach(module_table, {rec.resolved_module})

(***************************************************************************)
(* C9: entries are ordered as declared: when sort_modules has returned,    *)
(* for entries e_i declared before e_j, if e_j is not reachable through    *)
(* static imports from the runtime module or from an entry declared at or  *)
(* before e_i (a module is reachable from itself), then e_i has a smaller  *)
(* execution order than e_j.                                               *)
(***************************************************************************)
C9_EntriesInDeclaredOrder ==
  Done =>
    \A i, j \in 1 .. Len(entries) :
      (/\ i < j
       /\ Normal(entries[j]) \notin
            Reach(module_table,
                  {Normal(RuntimeId)} \cup {Normal(entries[h]) : h \in 1 .. i}))
      => /\ Assigned(Normal(entries[i]))
         /\ Assigned(Normal(entries[j]))
         /\ ExecOrder(module_table, Normal(entries[i]))
              < ExecOrder(module_table, Normal(entries[j]))

\* Two entries, neither the runtime module, the later one reached from nothing
\* declared before it.
C9_Witness ==
  /\ Done
  /\ Len(entries) >= 2
  /\ entries[1] # RuntimeId
  /\ entries[2] # RuntimeId
  /\ Normal(entries[2]) \notin
       Reach(module_table, {Normal(RuntimeId), Normal(entries[1])})

(***************************************************************************)
(* C10: static dependencies are ordered as their import records: if, when  *)
(* module m is first visited, it has static import records of d1 and later *)
(* of d2, neither visited yet, and d2 is not reachable through static      *)
(* imports from d1 or from a static dependency of m declared before d1 (a  *)
(* module is reachable from itself), then when sort_modules has returned   *)
(* d1 has a smaller execution order than d2.                               *)
(***************************************************************************)
\* The modules visited before id was, id included.
VisitedUpTo(id) ==
  LET at == CHOOSE i \in 1 .. Len(visit_log) : visit_log[i] = id
  IN {visit_log[i] : i \in 1 .. at}

\* m, visited, has static records at positions i < j of d1 and d2 as C10 describes.
C10_Case(m, i, j) ==
  LET records == ImportRecords(module_table, m)
      d1 == records[i].resolved_module
      d2 == records[j].resolved_module
      earlier == {records[h].resolved_module :
                    h \in {g \in 1 .. i : IsStatic(records[g].kind)}}
  IN /\ i < j
     /\ IsStatic(records[i].kind)
     /\ IsStatic(records[j].kind)
     /\ d1 \notin VisitedUpTo(m)
     /\ d2 \notin VisitedUpTo(m)
     /\ d2 \notin Reach(module_table, earlier)

C10_DependenciesInRecordOrder ==
  Done =>
    \A m \in executed_ids :
      \A i, j \in 1 .. Len(ImportRecords(module_table, m)) :
        C10_Case(m, i, j) =>
          /\ Assigned(ImportRecords(module_table, m)[i].resolved_module)
          /\ Assigned(ImportRecords(module_table, m)[j].resolved_module)
          /\ ExecOrder(module_table, ImportRecords(module_table, m)[i].resolved_module)
               < ExecOrder(module_table, ImportRecords(module_table, m)[j].resolved_module)

\* Some visited module has two such records.
C10_Witness ==
  /\ Done
  /\ \E m \in executed_ids :
       \E i, j \in 1 .. Len(ImportRecords(module_table, m)) : C10_Case(m, i, j)

(***************************************************************************)
(* The module scanner: AstScanner of ast_scanner/mod.rs.                   *)
(*                                                                         *)
(* A symbol id is its index in the symbol table (AstSymbols), which holds  *)
(* the names; the table starts with the root bindings the semantic         *)
(* analysis declared and grows by create_symbol.  An import record id is   *)
(* its index in import_records.  Both count from 0, as in the program.     *)
(* Option values are sequences: None is <<>> and Some(x) is <<x>>.         *)
(***************************************************************************)
\* Three families of scanned modules: long programs of declarations with at
\* most one specifier, short programs of declarations with more specifiers, and
\* programs of declarations without specifier in a module of any declared
\* format; the modules of the first two families declare no format.
MaxStmts == 2        \* long programs: statements
ShortStmts == 1      \* short programs: statements
MaxSpecifiers == 2   \* short programs: specifiers of one declaration
FormatStmts == 2     \* programs of a module with a declared format: statements
ScannedIdx == 1      \* self.idx: the id of the module being scanned

None == <<>>
Some(x) == <<x>>

\* The names the semantic analysis bound in the root scope; the symbol id of
\* RootBindings[i] is i - 1.
RootBindings == <<"a", "b">>
RootSymbolIds == 0 .. Len(RootBindings) - 1
\* The names modules export and import.
ExportNames == {"default", "a"}
ModuleRequests == {"./m"}
ReprName == "main"

ModuleDefFormats == {"CJS", "CjsPackageJson", "EsmMjs", "EsmPackageJson", "Unknown"}

\* The span of the i-th statement and of the import expression inside it.
StmtSpan(i) == <<10 * i, 10 * i + 9>>
ExprSpan(i) == <<10 * i + 1, 10 * i + 8>>

\* The namespace marker of a named import, and an imported name.
SpecifierStar == [star |-> TRUE, name |-> ""]
SpecifierLiteral(name) == [star |-> FALSE, name |-> name]
SpecifierIsDefault(spec) == ~spec.star /\ spec.name = "default"

SymbolRef(owner, symbol) == <<owner, symbol>>

\* PathExt::representative_file_name of a module request
RepresentativeFileName(module_request) ==
  CASE module_request = "./m" -> "m"
    [] OTHER -> "index"

\* RawImportRecord::new: every flag starts false
RawImportRecord(module_request, kind, namespace_ref) ==
  [module_request |-> module_request,
   kind |-> kind,
   namespace_ref |-> namespace_ref,
   contains_import_default |-> FALSE,
   contains_import_star |-> FALSE,
   is_plain_import |-> FALSE]

\* StmtInfo::default, for the statement of index stmt_idx
StmtInfo(stmt_idx) ==
  [stmt_idx |-> stmt_idx,
   declared_symbols |-> <<>>,
   referenced_symbols |-> <<>>,
   import_records |-> <<>>]

\* AstSymbols::create_symbol: the table after the call; the new id is the
\* length of the table before it.
CreateSymbol(s, name) == [s EXCEPT !.symbols = Append(@, name)]
NextSymbolId(s) == Len(s.symbols)

\* lines 85-139: AstScanner::new
NewScanner(module_type) ==
  [idx |-> ScannedIdx,
   module_type |-> module_type,
   symbols |-> RootBindings \o <<ReprName \o "_default", ReprName \o "_ns">>,
   current_stmt_info |-> StmtInfo(None),
   result |->
     [repr_name |-> ReprName,
      named_imports |-> <<>>,
      named_exports |-> <<>>,
      stmt_infos |-> <<StmtInfo(None)>>,
      import_records |-> <<>>,
      star_exports |-> <<>>,
      default_export_ref |-> SymbolRef(ScannedIdx, Len(RootBindings)),
      imports |-> <<>>,
      exports_kind |-> "None",
      warnings |-> <<>>,
      normalized_dynamic_import_usage |-> <<>>],
   esm_export_keyword |-> None,
   esm_import_keyword |-> None,
   namespace_object_ref |-> SymbolRef(ScannedIdx, Len(RootBindings) + 1),
   used_exports_ref |-> FALSE,
   used_module_ref |-> FALSE,
   dynamic_import_usage_map |-> <<>>]

\* lines 176-178: Option::get_or_insert
GetOrInsert(option, value) == IF option = None THEN Some(value) ELSE option

SetEsmExportKeyword(s, span) ==
  [s EXCEPT !.esm_export_keyword = GetOrInsert(@, span)]

\* lines 180-182
AddDeclaredId(s, id) ==
  [s EXCEPT !.current_stmt_info.declared_symbols = Append(@, SymbolRef(s.idx, id))]

\* lines 184-186: the root binding of a name; the name is bound ("must have")
GetRootBinding(name) ==
  (CHOOSE i \in 1 .. Len(RootBindings) : RootBindings[i] = name) - 1

\* The record of an id, and the records with the record of an id changed.
RecordAt(s, id) == s.result.import_records[id + 1]

\* lines 188-206: the id returned is the number of records before the call
NextImportRecordId(s) == Len(s.result.import_records)

AddImportRecord(s, module_request, kind) ==
  LET stmt_idx == IF s.current_stmt_info.stmt_idx = None
                    THEN 0 ELSE s.current_stmt_info.stmt_idx[1]
      created == CreateSymbol(s, "#LOCAL_NAMESPACE_IN_" \o ToString(stmt_idx) \o "#")
      rec == RawImportRecord(module_request, kind, SymbolRef(s.idx, NextSymbolId(s)))
  IN [created EXCEPT
        !.result.import_records = Append(@, rec),
        !.current_stmt_info.import_records = Append(@, NextImportRecordId(s))]

\* The span of the j-th specifier of the i-th statement.
SpecifierSpan(i, j) == <<10 * i + j, 10 * i + j>>

NamedImport(imported, imported_as, record_id, span_imported) ==
  [imported |-> imported,
   imported_as |-> imported_as,
   span_imported |-> span_imported,
   record_id |-> record_id]

LocalExport(referenced) == [referenced |-> referenced]

\* lines 208-224
AddNamedImport(s, local, imported, record_id, span_imported) ==
  [s EXCEPT !.result.named_imports =
     MapInsert(@, SymbolRef(s.idx, local),
               NamedImport(SpecifierLiteral(imported), SymbolRef(s.idx, local),
                           record_id, span_imported))]

\* lines 226-236
AddStarImport(s, local, record_id, span_imported) ==
  [s EXCEPT !.result.named_imports =
     MapInsert(@, SymbolRef(s.idx, local),
               NamedImport(SpecifierStar, SymbolRef(s.idx, local),
                           record_id, span_imported))]

\* A local export that keeps the entry a name already has.
AddLocalExportKeepsFirst(s, export_name, local) ==
  IF export_name \in DOMAIN s.result.named_exports THEN s
  ELSE [s EXCEPT !.result.named_exports =
          MapInsert(@, export_name, LocalExport(SymbolRef(s.idx, local)))]

\* lines 238-243
AddLocalExport(s, export_name, local) ==
  [s EXCEPT !.result.named_exports =
     MapInsert(@, export_name, LocalExport(SymbolRef(s.idx, local)))]

\* lines 245-250
AddLocalDefaultExport(s, local) ==
  [s EXCEPT !.result.named_exports =
     MapInsert(@, "default", LocalExport(SymbolRef(s.idx, local)))]

\* The records with one flag of the record of an id set.
WithContainsImportDefault(s, record_id) ==
  [s EXCEPT !.result.import_records[record_id + 1].contains_import_default = TRUE]

WithContainsImportStar(s, record_id) ==
  [s EXCEPT !.result.import_records[record_id + 1].contains_import_star = TRUE]

WithIsPlainImport(s, record_id, value) ==
  [s EXCEPT !.result.import_records[record_id + 1].is_plain_import = value]

\* A re-export that references the symbol of the last named import made
\* before it instead of the symbol it generated.
AddReExportOfEarlierImport(s, export_name, imported, record_id, span_imported) ==
  LET generated == SymbolRef(s.idx, NextSymbolId(s))
      referenced == IF DOMAIN s.result.named_imports = {}
                      THEN SymbolRef(s.idx, 0)
                      ELSE CHOOSE r \in DOMAIN s.result.named_imports :
                             \A q \in DOMAIN s.result.named_imports : q[2] <= r[2]
      created == CreateSymbol(s, export_name)
  IN [created EXCEPT
        !.current_stmt_info.declared_symbols = Append(@, generated),
        !.result.named_imports =
           MapInsert(@, generated,
                     NamedImport(SpecifierLiteral(imported), generated,
                                 record_id, span_imported)),
        !.result.named_exports = MapInsert(@, export_name, LocalExport(referenced))]

\* lines 276-316
AddReExport(s, export_name, imported, record_id, span_imported) ==
  LET generated_imported_as_ref == SymbolRef(s.idx, NextSymbolId(s))
      created ==
        CreateSymbol(s, IF export_name = "default"
                          THEN RepresentativeFileName(
                                 RecordAt(s, record_id).module_request) \o "_default"
                          ELSE export_name)
      name_import == NamedImport(SpecifierLiteral(imported),
                                 generated_imported_as_ref, record_id, span_imported)
      declared ==
        [created EXCEPT
           !.current_stmt_info.declared_symbols = Append(@, generated_imported_as_ref)]
      flagged == IF SpecifierIsDefault(name_import.imported)
                   THEN WithContainsImportDefault(declared, record_id)
                   ELSE declared
  IN [flagged EXCEPT
        !.result.named_imports = MapInsert(@, generated_imported_as_ref, name_import),
        !.result.named_exports =
           MapInsert(@, export_name, LocalExport(generated_imported_as_ref))]

\* A star re-export that also lists its record among the star exports.
AddStarReExportAlsoStarExport(s, export_name, record_id, span_for_export_name) ==
  LET generated == SymbolRef(s.idx, NextSymbolId(s))
      created == CreateSymbol(s, export_name)
  IN [WithContainsImportStar(created, record_id) EXCEPT
        !.current_stmt_info.declared_symbols = Append(@, generated),
        !.result.named_imports =
           MapInsert(@, generated,
                     NamedImport(SpecifierStar, generated, record_id,
                                 span_for_export_name)),
        !.result.star_exports = Append(@, record_id),
        !.result.named_exports = MapInsert(@, export_name, LocalExport(generated))]

\* lines 318-342
AddStarReExport(s, export_name, record_id, span_for_export_name) ==
  LET generated_imported_as_ref == SymbolRef(s.idx, NextSymbolId(s))
      created == CreateSymbol(s, export_name)
      declared ==
        [created EXCEPT
           !.current_stmt_info.declared_symbols = Append(@, generated_imported_as_ref)]
      name_import == NamedImport(SpecifierStar, generated_imported_as_ref,
                                 record_id, span_for_export_name)
      imported ==
        [declared EXCEPT
           !.result.named_imports = MapInsert(@, generated_imported_as_ref, name_import)]
  IN [WithContainsImportStar(imported, record_id) EXCEPT
        !.result.named_exports =
           MapInsert(@, export_name, LocalExport(generated_imported_as_ref))]

(***************************************************************************)
(* The declarations.  A declaration is a record with its kind, its span    *)
(* and index (stmt_idx) in the program, and the fields of its kind:        *)
(*   ImportDeclaration          source, specifiers (None or Some(list))    *)
(*   ExportAllDeclaration       source, exported (None or Some(name))      *)
(*   ExportNamedDeclaration     source (None or Some(request)),            *)
(*                              specifiers, declaration (None or Some)     *)
(*   ExportDefaultDeclaration   declaration                                *)
(*   TSExportAssignment, TSNamespaceExportDeclaration: no field            *)
(***************************************************************************)

\* lines 359-361: for_each over the specifiers of `export { .. } from`
RECURSIVE AddReExports(_, _, _, _)
AddReExports(s, decl, record_id, j) ==
  IF j > Len(decl.specifiers) THEN s
  ELSE AddReExports(
         AddReExport(s, decl.specifiers[j].exported, decl.specifiers[j].local,
                     record_id, SpecifierSpan(decl.stmt_idx, j)),
         decl, record_id, j + 1)

\* lines 366-368: for_each over the specifiers of `export { .. }`
RECURSIVE AddLocalExports(_, _, _)
AddLocalExports(s, decl, j) ==
  IF j > Len(decl.specifiers) THEN s
  ELSE AddLocalExports(
         AddLocalExport(s, decl.specifiers[j].exported,
                        GetRootBinding(decl.specifiers[j].local)),
         decl, j + 1)

\* lines 372-379: the binding identifiers of an exported variable declaration
RECURSIVE AddDeclaredExports(_, _, _)
AddDeclaredExports(s, ids, j) ==
  IF j > Len(ids) THEN s
  ELSE AddDeclaredExports(
         [s EXCEPT !.result.named_exports =
            MapInsert(@, s.symbols[ids[j] + 1], LocalExport(SymbolRef(s.idx, ids[j])))],
         ids, j + 1)

\* lines 344-354
ScanExportAllDecl(s, decl) ==
  LET id == NextImportRecordId(s)
      recorded == AddImportRecord(s, decl.source, "Import")
      exported ==
        IF decl.exported # None
          THEN AddStarReExport(recorded, decl.exported[1], id, decl.span)
          ELSE [recorded EXCEPT !.result.star_exports = Append(@, id)]
  IN [exported EXCEPT !.result.imports = MapInsert(@, decl.span, id)]

\* line 389: a declaration that is no variable, function or class declaration
ExportNamedDeclUnreachable(decl) ==
  /\ decl.source = None
  /\ decl.declaration # None
  /\ decl.declaration[1].kind \notin
       {"VariableDeclaration", "FunctionDeclaration", "ClassDeclaration"}

\* lines 356-393
ScanExportNamedDecl(s, decl) ==
  IF decl.source # None
    THEN LET record_id == NextImportRecordId(s)
             recorded == AddImportRecord(s, decl.source[1], "Import")
             re_exported == AddReExports(recorded, decl, record_id, 1)
             imported ==
               [re_exported EXCEPT
                  !.result.imports = MapInsert(@, decl.span, record_id)]
         IN WithIsPlainImport(imported, record_id, decl.specifiers = <<>>)
    ELSE LET exported == AddLocalExports(s, decl, 1)
         IN IF decl.declaration = None THEN exported
            ELSE CASE decl.declaration[1].kind = "VariableDeclaration" ->
                        AddDeclaredExports(exported, decl.declaration[1].ids, 1)
                   [] decl.declaration[1].kind = "FunctionDeclaration" ->
                        AddLocalExport(exported,
                                       exported.symbols[decl.declaration[1].ids[1] + 1],
                                       decl.declaration[1].ids[1])
                   [] decl.declaration[1].kind = "ClassDeclaration" ->
                        AddLocalExport(exported,
                                       exported.symbols[decl.declaration[1].ids[1] + 1],
                                       decl.declaration[1].ids[1])
                   [] OTHER -> exported

\* line 413: a default export that is no expression, function or class
ExportDefaultDeclUnreachable(decl) ==
  decl.declaration.kind \notin {"Expression", "FunctionDeclaration", "ClassDeclaration"}

\* lines 400-421
ScanExportDefaultDecl(s, decl) ==
  LET local_binding_for_default_export ==
        IF decl.declaration.kind = "Expression" THEN None ELSE decl.declaration.id
      final_binding ==
        IF local_binding_for_default_export = None
          THEN s.result.default_export_ref[2]
          ELSE local_binding_for_default_export[1]
  IN AddLocalDefaultExport(AddDeclaredId(s, final_binding), final_binding)

\* An import specifier handler that flags the default import only for the
\* default specifier, not for a named specifier that imports `default`.
ScanImportSpecifierDefaultKeywordOnly(s, spec, rec_id, span) ==
  CASE spec.kind = "ImportSpecifier" ->
         AddNamedImport(s, spec.local, spec.imported, rec_id, span)
    [] spec.kind = "ImportDefaultSpecifier" ->
         WithContainsImportDefault(
           AddNamedImport(s, spec.local, "default", rec_id, span), rec_id)
    [] spec.kind = "ImportNamespaceSpecifier" ->
         WithContainsImportStar(AddStarImport(s, spec.local, rec_id, span), rec_id)

\* lines 431-448: one specifier of an import declaration
ScanImportSpecifier(s, spec, rec_id, span) ==
  CASE spec.kind = "ImportSpecifier" ->
         LET named == AddNamedImport(s, spec.local, spec.imported, rec_id, span)
         IN IF spec.imported = "default"
              THEN WithContainsImportDefault(named, rec_id)
              ELSE named
    [] spec.kind = "ImportDefaultSpecifier" ->
         WithContainsImportDefault(
           AddNamedImport(s, spec.local, "default", rec_id, span), rec_id)
    [] spec.kind = "ImportNamespaceSpecifier" ->
         WithContainsImportStar(AddStarImport(s, spec.local, rec_id, span), rec_id)

RECURSIVE ScanImportSpecifiers(_, _, _, _)
ScanImportSpecifiers(s, decl, rec_id, j) ==
  IF j > Len(decl.specifiers[1]) THEN s
  ELSE ScanImportSpecifiers(
         ScanImportSpecifier(s, decl.specifiers[1][j], rec_id,
                             SpecifierSpan(decl.stmt_idx, j)),
         decl, rec_id, j + 1)

\* lines 423-449
ScanImportDecl(s, decl) ==
  LET rec_id == NextImportRecordId(s)
      recorded == AddImportRecord(s, decl.source, "Import")
      imported == [recorded EXCEPT !.result.imports = MapInsert(@, decl.span, rec_id)]
      plain == WithIsPlainImport(imported, rec_id,
                                 IF decl.specifiers = None THEN TRUE
                                 ELSE decl.specifiers[1] = <<>>)
  IN IF decl.specifiers = None THEN plain
     ELSE ScanImportSpecifiers(plain, decl, rec_id, 1)

\* lines 389, 413: the declarations on which the scan panics (unreachable!)
ScanModuleDeclPanics(decl) ==
  \/ decl.kind = "ExportNamedDeclaration" /\ ExportNamedDeclUnreachable(decl)
  \/ decl.kind = "ExportDefaultDeclaration" /\ ExportDefaultDeclUnreachable(decl)

\* lines 450-471
ScanModuleDecl(s, decl) ==
  CASE decl.kind = "ImportDeclaration" ->
         ScanImportDecl([s EXCEPT !.esm_import_keyword = GetOrInsert(@, decl.span)],
                        decl)
    [] decl.kind = "ExportAllDeclaration" ->
         ScanExportAllDecl(SetEsmExportKeyword(s, decl.span), decl)
    [] decl.kind = "ExportNamedDeclaration" ->
         ScanExportNamedDecl(SetEsmExportKeyword(s, decl.span), decl)
    [] decl.kind = "ExportDefaultDeclaration" ->
         ScanExportDefaultDecl(SetEsmExportKeyword(s, decl.span), decl)
    [] OTHER -> s

\* A cascade that asks the declared format before the `exports` / `module`
\* references.
ExportsKindOfFormatFirst(s) ==
  IF s.esm_export_keyword # None THEN "Esm"
  ELSE IF s.module_type \in {"CJS", "CjsPackageJson"} THEN "CommonJs"
  ELSE IF s.module_type \in {"EsmMjs", "EsmPackageJson"} THEN "Esm"
  ELSE IF s.used_exports_ref \/ s.used_module_ref THEN "CommonJs"
  ELSE IF s.esm_import_keyword # None THEN "Esm"
  ELSE "None"

\* lines 143-164
ExportsKindOf(s) ==
  IF s.esm_export_keyword # None THEN "Esm"
  ELSE IF s.used_exports_ref \/ s.used_module_ref THEN "CommonJs"
  ELSE CASE s.module_type \in {"CJS", "CjsPackageJson"} -> "CommonJs"
         [] s.module_type \in {"EsmMjs", "EsmPackageJson"} -> "Esm"
         [] s.module_type = "Unknown" ->
              IF s.esm_import_keyword # None THEN "Esm" ELSE "None"

\* A normalisation that keeps the usages of the spans without import record,
\* under the id 0.
NormalizedUsageKeepsUnmatched(usage_map, imports) ==
  {[id \in {IF span \in DOMAIN imports THEN imports[span] ELSE 0 :
              span \in DOMAIN usage_map} |->
      usage_map[CHOOSE span \in DOMAIN usage_map :
                  id = IF span \in DOMAIN imports THEN imports[span] ELSE 0]]}

\* lines 165-170: the usages of the spans that have an import record, keyed by
\* the id of the record.  Were two such spans to have the same id, the later
\* one in the iteration order of the hash map would win: any of them.
NormalizedUsage(usage_map, imports) ==
  LET matched == (DOMAIN usage_map) \cap (DOMAIN imports)
  IN {m \in [{imports[span] : span \in matched} -> {usage_map[span] : span \in matched}] :
        \A id \in DOMAIN m :
          \E span \in matched : imports[span] = id /\ m[id] = usage_map[span]}

\* lines 171-173: the result of scan
ScanResult(s, normalized_usage) ==
  [s.result EXCEPT
     !.normalized_dynamic_import_usage = normalized_usage,
     !.exports_kind = ExportsKindOf(s)]

(***************************************************************************)
(* The walk over the program (impl_visit.rs): the statements are visited   *)
(* in order; the statement of index i, counted from 1 since index 0 is the *)
(* statement of the namespace object, becomes the current statement, is    *)
(* visited, and its StmtInfo is pushed.                                    *)
(***************************************************************************)
EnterStmt(s, stmt_idx) == [s EXCEPT !.current_stmt_info = StmtInfo(Some(stmt_idx))]

ExitStmt(s) ==
  [s EXCEPT !.result.stmt_infos = Append(@, s.current_stmt_info),
            !.current_stmt_info = StmtInfo(None)]

\* A reference to the unresolved identifier `exports` or `module`.
VisitIdentifierReference(s, name) ==
  CASE name = "exports" -> [s EXCEPT !.used_exports_ref = TRUE]
    [] name = "module" -> [s EXCEPT !.used_module_ref = TRUE]
    [] OTHER -> s

DynamicImportUses == {[kind |-> "All", names |-> {}], [kind |-> "Partial", names |-> {"a"}]}

\* `import(..)`: its usage is collected under the span of the expression; it
\* gets an import record when its argument is a string literal.
VisitImportExpression(s, expr) ==
  LET collected ==
        [s EXCEPT !.dynamic_import_usage_map = MapInsert(@, expr.span, expr.usage)]
      id == NextImportRecordId(collected)
  IN IF expr.source = None THEN collected
     ELSE [AddImportRecord(collected, expr.source[1], "DynamicImport") EXCEPT
             !.result.imports = MapInsert(@, expr.span, id)]

(***************************************************************************)
(* The programs: the statements a scan may meet.                           *)
(***************************************************************************)
SeqsUpTo(S, n) == UNION {[1 .. k -> S] : k \in 0 .. n}
SeqsFrom(S, lo, hi) == UNION {[1 .. k -> S] : k \in lo .. hi}

IsInjective(list) == \A i, j \in 1 .. Len(list) : list[i] = list[j] => i = j

\* The bindings of the root scope not yet bound by an import declaration.
UnimportedBindings(s) ==
  {id \in RootSymbolIds : SymbolRef(s.idx, id) \notin DOMAIN s.result.named_imports}

ImportSpecifiersOver(locals) ==
  [kind : {"ImportSpecifier"}, imported : ExportNames, local : locals]
    \cup [kind : {"ImportDefaultSpecifier", "ImportNamespaceSpecifier"},
          imported : {""}, local : locals]

\* import .. from '..': each specifier binds a root binding of its own
ImportDeclarations(s, stmt_idx, max) ==
  {[kind |-> "ImportDeclaration", stmt_idx |-> stmt_idx, span |-> StmtSpan(stmt_idx),
    source |-> source, specifiers |-> specifiers] :
     source \in ModuleRequests,
     specifiers \in {None} \cup
       {Some(list) : list \in
          {l \in SeqsUpTo(ImportSpecifiersOver(UnimportedBindings(s)), max) :
             IsInjective([j \in 1 .. Len(l) |-> l[j].local])}}}

\* export * from '..' and export * as ns from '..'
ExportAllDeclarations(stmt_idx, max) ==
  {[kind |-> "ExportAllDeclaration", stmt_idx |-> stmt_idx, span |-> StmtSpan(stmt_idx),
    source |-> source, exported |-> exported] :
     source \in ModuleRequests,
     exported \in {None} \cup
       {Some(name) : name \in IF max > 0 THEN ExportNames ELSE {}}}

\* The declarations an `export <declaration>` may hold; the last one is a
\* TypeScript declaration.
ExportedDeclarations(max) ==
  [kind : {"VariableDeclaration"}, ids : SeqsFrom(RootSymbolIds, 1, max)]
    \cup [kind : {"FunctionDeclaration", "ClassDeclaration"},
          ids : SeqsFrom(RootSymbolIds, 1, IF max > 0 THEN 1 ELSE 0)]
    \cup [kind : {"TSEnumDeclaration"}, ids : {<<>>}]

\* export { .. } from '..', export { .. } and export <declaration>
ExportNamedDeclarations(stmt_idx, max) ==
  {[kind |-> "ExportNamedDeclaration", stmt_idx |-> stmt_idx,
    span |-> StmtSpan(stmt_idx), source |-> Some(source), specifiers |-> specifiers,
    declaration |-> None] :
     source \in ModuleRequests,
     specifiers \in SeqsUpTo([local : ExportNames, exported : ExportNames], max)}
  \cup
  {[kind |-> "ExportNamedDeclaration", stmt_idx |-> stmt_idx,
    span |-> StmtSpan(stmt_idx), source |-> None, specifiers |-> specifiers,
    declaration |-> None] :
     specifiers \in SeqsUpTo([local : Range(RootBindings), exported : ExportNames],
                             max)}
  \cup
  {[kind |-> "ExportNamedDeclaration", stmt_idx |-> stmt_idx,
    span |-> StmtSpan(stmt_idx), source |-> None, specifiers |-> <<>>,
    declaration |-> Some(declaration)] :
     declaration \in ExportedDeclarations(max)}

\* export default ..; the last kind is a TypeScript declaration
ExportDefaultDeclarations(stmt_idx, max) ==
  {[kind |-> "ExportDefaultDeclaration", stmt_idx |-> stmt_idx,
    span |-> StmtSpan(stmt_idx), declaration |-> declaration] :
     declaration \in
       [kind : {"Expression", "TSInterfaceDeclaration"}, id : {None}]
         \cup [kind : {"FunctionDeclaration", "ClassDeclaration"},
               id : {None} \cup
                      {Some(id) : id \in IF max > 0 THEN RootSymbolIds ELSE {}}]}

\* The module declarations scan_module_decl has no arm for.
OtherModuleDeclarations(stmt_idx) ==
  {[kind |-> kind, stmt_idx |-> stmt_idx, span |-> StmtSpan(stmt_idx)] :
     kind \in {"TSExportAssignment", "TSNamespaceExportDeclaration"}}

ImportExpressions(stmt_idx) ==
  {[kind |-> "ImportExpression", stmt_idx |-> stmt_idx, span |-> ExprSpan(stmt_idx),
    source |-> source, usage |-> usage] :
     source \in {None} \cup {Some(request) : request \in ModuleRequests},
     usage \in DynamicImportUses}

(***************************************************************************)
(* The state machine of one scan: AstScanner::new, the walk over the       *)
(* statements of the program, then the end of scan.                        *)
(***************************************************************************)
sort_vars == <<module_table, entries, execution_stack, stack_indexes_of_executing_id,
               executed_ids, sorted_modules, next_exec_order, circular_dependencies,
               warnings, self_sorted_modules, failed_asserts, visit_log, iterations>>

\* No table is being sorted while a module is scanned.
NoSort ==
  /\ module_table = [normal_modules |-> <<>>, external_modules |-> <<>>]
  /\ entries = <<>>
  /\ execution_stack = <<>>
  /\ stack_indexes_of_executing_id = <<>>
  /\ executed_ids = {}
  /\ sorted_modules = <<>>
  /\ next_exec_order = 0
  /\ circular_dependencies = {}
  /\ warnings = <<>>
  /\ self_sorted_modules = <<>>
  /\ failed_asserts = {}
  /\ visit_log = <<>>
  /\ iterations = 0

InitScan ==
  /\ NoSort
  /\ \E module_type \in ModuleDefFormats : scanner = NewScanner(module_type)
  /\ scan_log = <<>>
  /\ pc = "scan"

\* The names a statement carries: its specifiers, or the bindings it exports.
SpecifierCount(stmt) ==
  CASE stmt.kind = "ImportDeclaration" ->
         IF stmt.specifiers = None THEN 0 ELSE Len(stmt.specifiers[1])
    [] stmt.kind = "ExportAllDeclaration" -> IF stmt.exported = None THEN 0 ELSE 1
    [] stmt.kind = "ExportNamedDeclaration" ->
         IF stmt.declaration = None THEN Len(stmt.specifiers)
         ELSE Len(stmt.declaration[1].ids)
    [] stmt.kind = "ExportDefaultDeclaration" ->
         IF stmt.declaration.id = None THEN 0 ELSE 1
    [] OTHER -> 0

\* The specifiers the next statement may have for the program to stay in one
\* of the families; -1 when the program is complete.
AllowedSpecifiers ==
  LET fits(len, max) ==
        /\ Len(scan_log) < len
        /\ \A i \in 1 .. Len(scan_log) : SpecifierCount(scan_log[i]) <= max
      long == IF scanner.module_type = "Unknown" /\ fits(MaxStmts, 1) THEN 1 ELSE -1
      short == IF scanner.module_type = "Unknown" /\ fits(ShortStmts, MaxSpecifiers)
                 THEN MaxSpecifiers ELSE -1
      format == IF fits(FormatStmts, 0) THEN 0 ELSE -1
  IN IF long >= short /\ long >= format THEN long
     ELSE IF short >= format THEN short ELSE format

Scanning == pc = "scan" /\ AllowedSpecifiers >= 0
NextStmtIdx == Len(scan_log) + 1

\* One module declaration: the statement becomes the current one, the
\* declaration is scanned (or the scan panics), and the StmtInfo is pushed.
VisitStmt(s, stmt) ==
  CASE stmt.kind = "IdentifierReference" ->
         ExitStmt(VisitIdentifierReference(EnterStmt(s, stmt.stmt_idx), stmt.name))
    [] stmt.kind = "ImportExpression" ->
         ExitStmt(VisitImportExpression(EnterStmt(s, stmt.stmt_idx), stmt))
    [] OTHER ->
         ExitStmt(ScanModuleDecl(EnterStmt(s, stmt.stmt_idx), stmt))

VisitModuleDeclaration(decl) ==
  /\ scan_log' = Append(scan_log, decl)
  /\ IF ScanModuleDeclPanics(decl)
       THEN /\ pc' = "panicked"
            /\ UNCHANGED scanner
       ELSE /\ scanner' = VisitStmt(scanner, decl)
            /\ UNCHANGED pc
  /\ UNCHANGED sort_vars

VisitImportDeclaration ==
  /\ Scanning
  /\ \E decl \in ImportDeclarations(scanner, NextStmtIdx, AllowedSpecifiers) :
       VisitModuleDeclaration(decl)

VisitExportAllDeclaration ==
  /\ Scanning
  /\ \E decl \in ExportAllDeclarations(NextStmtIdx, AllowedSpecifiers) :
       VisitModuleDeclaration(decl)

VisitExportNamedDeclaration ==
  /\ Scanning
  /\ \E decl \in ExportNamedDeclarations(NextStmtIdx, AllowedSpecifiers) :
       VisitModuleDeclaration(decl)

VisitExportDefaultDeclaration ==
  /\ Scanning
  /\ \E decl \in ExportDefaultDeclarations(NextStmtIdx, AllowedSpecifiers) :
       VisitModuleDeclaration(decl)

VisitOtherModuleDeclaration ==
  /\ Scanning
  /\ \E decl \in OtherModuleDeclarations(NextStmtIdx) : VisitModuleDeclaration(decl)

\* A statement that refers to `exports` or to `module`.
VisitReferenceStatement ==
  /\ Scanning
  /\ \E name \in {"exports", "module"} :
       LET stmt == [kind |-> "IdentifierReference", stmt_idx |-> NextStmtIdx,
                    name |-> name]
       IN /\ scan_log' = Append(scan_log, stmt)
          /\ scanner' = VisitStmt(scanner, stmt)
  /\ UNCHANGED <<sort_vars, pc>>

\* A statement that holds an import expression.
VisitImportStatement ==
  /\ Scanning
  /\ \E expr \in ImportExpressions(NextStmtIdx) :
       /\ scan_log' = Append(scan_log, expr)
       /\ scanner' = VisitStmt(scanner, expr)
  /\ UNCHANGED <<sort_vars, pc>>

\* lines 143-174: the end of scan, after visit_program
ScanReturn ==
  /\ pc = "scan"
  /\ \E normalized_usage \in
          NormalizedUsage(scanner.dynamic_import_usage_map, scanner.result.imports) :
       scanner' = [scanner EXCEPT !.result = ScanResult(scanner, normalized_usage)]
  /\ pc' = "returned"
  /\ UNCHANGED <<sort_vars, scan_log>>

NextScan ==
  \/ VisitImportDeclaration
  \/ VisitExportAllDeclaration
  \/ VisitExportNamedDeclaration
  \/ VisitExportDefaultDeclaration
  \/ VisitOtherModuleDeclaration
  \/ VisitReferenceStatement
  \/ VisitImportStatement
  \/ ScanReturn

SpecScan == InitScan /\ [][NextScan]_vars

\* The scanner after the statements of a log, none of which panics.
RECURSIVE ScannerAfter(_, _)
ScannerAfter(module_type, log) ==
  IF log = <<>> THEN NewScanner(module_type)
  ELSE VisitStmt(ScannerAfter(module_type, SubSeq(log, 1, Len(log) - 1)),
                 log[Len(log)])

(***************************************************************************)
(* Claims about the scanner.                                               *)
(***************************************************************************)
Returned == pc = "returned"

LogHas(kinds) == \E i \in 1 .. Len(scan_log) : scan_log[i].kind \in kinds

\* What the program holds, read off the statements visited.
ExportDeclarationSeen ==
  LogHas({"ExportAllDeclaration", "ExportNamedDeclaration", "ExportDefaultDeclaration"})
ImportDeclarationSeen == LogHas({"ImportDeclaration"})
ExportsOrModuleUsed == LogHas({"IdentifierReference"})

\* C11: the exports kind scan returns is Esm if an export declaration was
\* seen; else CommonJs if `exports` or `module` was used; else CommonJs for
\* the two CommonJS formats and Esm for the two ESM formats; else, the format
\* being Unknown, Esm if an import declaration was seen and None if not.
C11_ExportsKind ==
  Returned =>
    scanner.result.exports_kind =
      CASE ExportDeclarationSeen -> "Esm"
        [] ~ExportDeclarationSeen /\ ExportsOrModuleUsed -> "CommonJs"
        [] OTHER ->
             CASE scanner.module_type = "CJS" -> "CommonJs"
               [] scanner.module_type = "CjsPackageJson" -> "CommonJs"
               [] scanner.module_type = "EsmMjs" -> "Esm"
               [] scanner.module_type = "EsmPackageJson" -> "Esm"
               [] scanner.module_type = "Unknown" /\ ImportDeclarationSeen -> "Esm"
               [] scanner.module_type = "Unknown" /\ ~ImportDeclarationSeen -> "None"

\* A module of an ESM format that uses `module` and has an import declaration
\* but no export declaration: CommonJs.
C11_Witness ==
  /\ Returned
  /\ scanner.module_type = "EsmMjs"
  /\ ExportsOrModuleUsed
  /\ ImportDeclarationSeen
  /\ ~ExportDeclarationSeen
  /\ scanner.result.exports_kind = "CommonJs"

\* The statement scanned last, the scanner before it, and what it added.
LastStmt == scan_log[Len(scan_log)]
ScannerBefore == ScannerAfter(scanner.module_type, SubSeq(scan_log, 1, Len(scan_log) - 1))
JustScanned(kind) == pc = "scan" /\ scan_log # <<>> /\ LastStmt.kind = kind

NewSymbolRefs ==
  {SymbolRef(scanner.idx, id) : id \in Len(ScannerBefore.symbols) .. Len(scanner.symbols) - 1}
NewNamedImports ==
  (DOMAIN scanner.result.named_imports) \ (DOMAIN ScannerBefore.result.named_imports)
NewImportRecordIds ==
  Len(ScannerBefore.result.import_records) .. Len(scanner.result.import_records) - 1
\* The StmtInfo pushed for the statement scanned last.
LastStmtInfo == scanner.result.stmt_infos[Len(scanner.result.stmt_infos)]

\* The specifiers of a declaration after which no specifier of the declaration
\* exports the same name.
LastOfItsName(specifiers, j) ==
  \A k \in j + 1 .. Len(specifiers) : specifiers[k].exported # specifiers[j].exported

\* C12: for `export { x as y } from M`, each specifier adds exactly one named
\* import, keyed by a symbol synthesized for it in the scanning module, with
\* imported name x and the id of the import record of M; the named export y
\* references that synthesized symbol, which the statement declares.
C12_ReExport ==
  (JustScanned("ExportNamedDeclaration") /\ LastStmt.source # None) =>
    LET specifiers == LastStmt.specifiers
    IN /\ Cardinality(NewImportRecordIds) = 1
       /\ \A record_id \in NewImportRecordIds :
            /\ RecordAt(scanner, record_id).module_request = LastStmt.source[1]
            /\ Cardinality(NewNamedImports) = Len(specifiers)
            /\ NewNamedImports \subseteq NewSymbolRefs
            /\ \E generated \in [1 .. Len(specifiers) -> NewNamedImports] :
                 /\ \A j, k \in 1 .. Len(specifiers) :
                      generated[j] = generated[k] => j = k
                 /\ \A j \in 1 .. Len(specifiers) :
                      /\ generated[j][1] = ScannedIdx
                      /\ scanner.result.named_imports[generated[j]].imported =
                           SpecifierLiteral(specifiers[j].local)
                      /\ scanner.result.named_imports[generated[j]].record_id = record_id
                      /\ scanner.result.named_imports[generated[j]].imported_as =
                           generated[j]
                      /\ generated[j] \in Range(LastStmtInfo.declared_symbols)
                      /\ LastOfItsName(specifiers, j) =>
                           /\ specifiers[j].exported \in DOMAIN scanner.result.named_exports
                           /\ scanner.result.named_exports[specifiers[j].exported].referenced
                                = generated[j]

\* `export { a as default, default as a } from './m'`
C12_Witness ==
  /\ JustScanned("ExportNamedDeclaration")
  /\ LastStmt.source # None
  /\ Len(LastStmt.specifiers) = 2
  /\ LastStmt.specifiers[1].exported # LastStmt.specifiers[2].exported
  /\ LastStmt.specifiers[1].local # LastStmt.specifiers[1].exported
  /\ Cardinality(NewNamedImports) = 2

\* C13: `export * as ns from M` appends one import record for M, adds exactly
\* one named import, which carries the whole-namespace marker and the id of
\* that record, registers the named export ns as referencing the synthesized
\* symbol that keys the named import, flags the record as containing a star
\* import, and adds nothing to the star exports.
C13_StarReExport ==
  (JustScanned("ExportAllDeclaration") /\ LastStmt.exported # None) =>
    /\ Cardinality(NewImportRecordIds) = 1
    /\ Cardinality(NewNamedImports) = 1
    /\ scanner.result.star_exports = ScannerBefore.result.star_exports
    /\ \A record_id \in NewImportRecordIds : \A generated \in NewNamedImports :
         /\ RecordAt(scanner, record_id).module_request = LastStmt.source
         /\ RecordAt(scanner, record_id).contains_import_star
         /\ generated \in NewSymbolRefs
         /\ generated # RecordAt(scanner, record_id).namespace_ref
         /\ scanner.result.named_imports[generated].imported = SpecifierStar
         /\ scanner.result.named_imports[generated].record_id = record_id
         /\ LastStmt.exported[1] \in DOMAIN scanner.result.named_exports
         /\ scanner.result.named_exports[LastStmt.exported[1]].referenced = generated
         /\ \A name \in DOMAIN scanner.result.named_exports :
              name # LastStmt.exported[1] =>
                /\ name \in DOMAIN ScannerBefore.result.named_exports
                /\ scanner.result.named_exports[name] =
                     ScannerBefore.result.named_exports[name]

\* `export * as a from './m'` after a statement that exported `a` already.
C13_Witness ==
  /\ JustScanned("ExportAllDeclaration")
  /\ LastStmt.exported # None
  /\ LastStmt.exported[1] \in DOMAIN ScannerBefore.result.named_exports
  /\ scanner.result.named_exports[LastStmt.exported[1]] #
       ScannerBefore.result.named_exports[LastStmt.exported[1]]

\* The export registrations of the i-th statement of the log, in order, each as
\* <<name, symbol>>: a local export registers the root binding of its local
\* name, an exported declaration the symbols it declares under their names, a
\* default export the symbol of the named function or class or else the
\* default symbol of the module, and a re-export the symbol synthesized for
\* it: the symbols a declaration creates follow the namespace symbol of its
\* import record, one per specifier.
RegistrationsOf(i) ==
  LET stmt == scan_log[i]
      created == Len(ScannerAfter(scanner.module_type, SubSeq(scan_log, 1, i - 1)).symbols)
      ref(id) == SymbolRef(ScannedIdx, id)
  IN CASE stmt.kind = "ExportAllDeclaration" ->
            IF stmt.exported = None THEN <<>>
            ELSE <<<<stmt.exported[1], ref(created + 1)>>>>
       [] stmt.kind = "ExportNamedDeclaration" /\ stmt.source # None ->
            [j \in 1 .. Len(stmt.specifiers) |->
               <<stmt.specifiers[j].exported, ref(created + j)>>]
       [] stmt.kind = "ExportNamedDeclaration" /\ stmt.source = None
            /\ stmt.declaration = None ->
            [j \in 1 .. Len(stmt.specifiers) |->
               <<stmt.specifiers[j].exported,
                 ref(CHOOSE id \in RootSymbolIds :
                       RootBindings[id + 1] = stmt.specifiers[j].local)>>]
       [] stmt.kind = "ExportNamedDeclaration" /\ stmt.source = None
            /\ stmt.declaration # None ->
            [j \in 1 .. Len(stmt.declaration[1].ids) |->
               <<RootBindings[stmt.declaration[1].ids[j] + 1],
                 ref(stmt.declaration[1].ids[j])>>]
       [] stmt.kind = "ExportDefaultDeclaration" ->
            IF stmt.declaration.id = None
              THEN <<<<"default", ref(Len(RootBindings))>>>>
              ELSE <<<<"default", ref(stmt.declaration.id[1])>>>>
       [] OTHER -> <<>>

RECURSIVE RegistrationsUpTo(_)
RegistrationsUpTo(i) ==
  IF i = 0 THEN <<>> ELSE RegistrationsUpTo(i - 1) \o RegistrationsOf(i)

Registrations == RegistrationsUpTo(Len(scan_log))

\* C14: after any sequence of export registrations (local exports, exported
\* declarations, default exports, named and star-as re-exports) named_exports
\* holds the names registered, one entry per name, which references the symbol
\* of the most recent registration under the name; no diagnostic is added.
C14_LastExportWins ==
  pc \in {"scan", "returned"} =>
    /\ DOMAIN scanner.result.named_exports =
         {Registrations[k][1] : k \in 1 .. Len(Registrations)}
    /\ \A k \in 1 .. Len(Registrations) :
         (\A later \in k + 1 .. Len(Registrations) :
            Registrations[later][1] # Registrations[k][1]) =>
           scanner.result.named_exports[Registrations[k][1]] =
             LocalExport(Registrations[k][2])
    /\ scanner.result.warnings = <<>>

\* A name registered by a re-export and then again for a root binding.
C14_Witness ==
  /\ pc = "returned"
  /\ \E k, later \in 1 .. Len(Registrations) :
       /\ k < later
       /\ later = Len(Registrations)
       /\ Registrations[k][1] = Registrations[later][1]
       /\ Registrations[k][2] # Registrations[later][2]
       /\ Registrations[k][2][2] > Len(RootBindings) + 1
       /\ Registrations[later][2][2] < Len(RootBindings)
       /\ scanner.result.named_exports[Registrations[later][1]].referenced =
            Registrations[later][2]

\* C15: a static import declaration appends exactly one import record, also
\* when an earlier declaration imports the same module request.  The record is
\* a plain import iff the declaration has no specifier (no list or an empty
\* one), contains a default import iff a specifier is a default specifier or a
\* named specifier of `default`, and contains a star import iff a specifier is
\* a namespace specifier; each specifier adds one named import, keyed by its
\* local symbol, with the id of the record.
C15_ImportDeclaration ==
  JustScanned("ImportDeclaration") =>
    LET specifiers == IF LastStmt.specifiers = None THEN <<>> ELSE LastStmt.specifiers[1]
        kinds == {specifiers[j].kind : j \in 1 .. Len(specifiers)}
        named_default ==
          \E j \in 1 .. Len(specifiers) :
            specifiers[j].kind = "ImportSpecifier" /\ specifiers[j].imported = "default"
    IN /\ Len(scanner.result.import_records) =
            Len(ScannerBefore.result.import_records) + 1
       /\ SubSeq(scanner.result.import_records, 1,
                 Len(ScannerBefore.result.import_records)) =
            ScannerBefore.result.import_records
       /\ \A rec_id \in NewImportRecordIds :
            /\ RecordAt(scanner, rec_id).module_request = LastStmt.source
            /\ RecordAt(scanner, rec_id).kind = "Import"
            /\ RecordAt(scanner, rec_id).is_plain_import <=> (specifiers = <<>>)
            /\ RecordAt(scanner, rec_id).contains_import_default <=>
                 ("ImportDefaultSpecifier" \in kinds \/ named_default)
            /\ RecordAt(scanner, rec_id).contains_import_star <=>
                 ("ImportNamespaceSpecifier" \in kinds)
            /\ NewNamedImports =
                 {SymbolRef(ScannedIdx, specifiers[j].local) : j \in 1 .. Len(specifiers)}
            /\ Cardinality(NewNamedImports) = Len(specifiers)
            /\ \A j \in 1 .. Len(specifiers) :
                 LET import ==
                       scanner.result.named_imports[
                         SymbolRef(ScannedIdx, specifiers[j].local)]
                 IN /\ import.record_id = rec_id
                    /\ import.imported =
                         CASE specifiers[j].kind = "ImportSpecifier" ->
                                SpecifierLiteral(specifiers[j].imported)
                           [] specifiers[j].kind = "ImportDefaultSpecifier" ->
                                SpecifierLiteral("default")
                           [] specifiers[j].kind = "ImportNamespaceSpecifier" ->
                                SpecifierStar
       /\ \A ref \in DOMAIN ScannerBefore.result.named_imports :
            /\ ref \in DOMAIN scanner.result.named_imports
            /\ scanner.result.named_imports[ref] = ScannerBefore.result.named_imports[ref]

\* `import x from './m'; import { default as y } from './m'`: two records
C15_Witness ==
  /\ JustScanned("ImportDeclaration")
  /\ Len(scanner.result.import_records) = 2
  /\ scanner.result.import_records[1].module_request =
       scanner.result.import_records[2].module_request
  /\ scan_log[1].kind = "ImportDeclaration"
  /\ LastStmt.specifiers # None
  /\ Len(LastStmt.specifiers[1]) = 1
  /\ LastStmt.specifiers[1][1].kind = "ImportSpecifier"
  /\ LastStmt.specifiers[1][1].imported = "default"
  /\ scanner.result.import_records[2].contains_import_default

\* The spans of the collected usages that are keys of the span-to-record map.
MatchedSpans ==
  (DOMAIN scanner.dynamic_import_usage_map) \cap (DOMAIN scanner.result.imports)

\* C16: the normalized dynamic-import usage scan returns has exactly one entry
\* for each collected usage whose span is a key of the span-to-record map,
\* keyed by the id of the record and carrying the same usage; a usage whose
\* span has no import record is dropped, and there is no other entry.
C16_NormalizedUsage ==
  Returned =>
    LET normalized == scanner.result.normalized_dynamic_import_usage
    IN /\ DOMAIN normalized = {scanner.result.imports[span] : span \in MatchedSpans}
       /\ Cardinality(DOMAIN normalized) = Cardinality(MatchedSpans)
       /\ \A span \in MatchedSpans :
            normalized[scanner.result.imports[span]] =
              scanner.dynamic_import_usage_map[span]

\* `import(x)` and `import('./m').then(r => r.a)`: one usage dropped, one kept
C16_Witness ==
  /\ Returned
  /\ Cardinality(DOMAIN scanner.dynamic_import_usage_map) = 2
  /\ Cardinality(MatchedSpans) = 1
  /\ \E id \in DOMAIN scanner.result.normalized_dynamic_import_usage :
       scanner.result.normalized_dynamic_import_usage[id].kind = "Partial"

\* The declaration shapes the scanner handles: the four module declarations of
\* ECMAScript, an exported declaration being a variable, function or class
\* declaration and a default export an expression, a function or a class.
Recognized(stmt) ==
  CASE stmt.kind \in {"ImportDeclaration", "ExportAllDeclaration"} -> TRUE
    [] stmt.kind = "ExportNamedDeclaration" ->
         \/ stmt.declaration = None
         \/ stmt.declaration[1].kind \in
              {"VariableDeclaration", "FunctionDeclaration", "ClassDeclaration"}
    [] stmt.kind = "ExportDefaultDeclaration" ->
         stmt.declaration.kind \in {"Expression", "FunctionDeclaration", "ClassDeclaration"}
    [] stmt.kind \in {"IdentifierReference", "ImportExpression"} -> TRUE
    [] OTHER -> FALSE

\* C17: a module or export declaration of a shape the scanner does not
\* recognize aborts the scan: scan returns only when every declaration it
\* visited has a shape it recognizes.
C17_UnrecognizedIsFatal ==
  Returned => \A i \in 1 .. Len(scan_log) : Recognized(scan_log[i])

(***************************************************************************)
(* Claims about the cycle chains and the visits of sort_modules.           *)
(***************************************************************************)
\* ToBeExecuted(m) is on top of the stack while m is executing: the next
\* iteration collects a chain.
AboutToCollect ==
  /\ InLoop
  /\ Top(State).status = "ToBeExecuted"
  /\ Top(State).id \in executed_ids
  /\ Top(State).id \in DOMAIN stack_indexes_of_executing_id

\* The modules with a WaitForExit entry on the stack at or above the
\* WaitForExit entry of m, from the bottom to the top.
PendingFrom(stack, m) ==
  LET from == CHOOSE p \in 1 .. Len(stack) : stack[p] = WaitForExit(m)
      pending == {p \in from .. Len(stack) : stack[p].status = "WaitForExit"}
      nth(k) == CHOOSE p \in pending : Cardinality({q \in pending : q < p}) = k - 1
  IN [k \in 1 .. Cardinality(pending) |-> stack[nth(k)].id]

\* A cycle of the static-import graph, from a module back to itself.
IsStaticCycle(chain) ==
  /\ Len(chain) >= 2
  /\ chain[1] = chain[Len(chain)]
  /\ \A i \in 1 .. Len(chain) - 1 :
       /\ IsNormal(chain[i])
       /\ chain[i + 1] \in StaticImports(module_table, chain[i])

\* C18: the chain recorded when ToBeExecuted(m) is popped while m is executing
\* is the sequence of the modules with a pending WaitForExit entry from the
\* entry of m up to the top of the stack, in stack order, followed by m; every
\* chain recorded starts and ends with the same module and each module of it
\* statically imports the next one.
C18_ChainIsCycle ==
  /\ \A chain \in circular_dependencies : IsStaticCycle(chain)
  /\ AboutToCollect =>
       LET m == Top(State).id
           rest == Popped(State).execution_stack
       IN /\ \E p \in 1 .. Len(rest) : rest[p] = WaitForExit(m)
          /\ OnExecuting(Popped(State), m).circular_dependencies =
               circular_dependencies \cup {PendingFrom(rest, m) \o <<m>>}
          /\ \A k \in 1 .. Len(PendingFrom(rest, m)) :
               ToBeExecuted(PendingFrom(rest, m)[k]) \in Range(rest) =>
                 WaitForExit(PendingFrom(rest, m)[k]) \in Range(rest)

\* A chain of three modules is about to be collected while a ToBeExecuted
\* entry lies between the WaitForExit entries of the chain.
C18_Witness ==
  /\ AboutToCollect
  /\ Len(PendingFrom(Popped(State).execution_stack, Top(State).id)) >= 2
  /\ \E p \in 1 .. Len(execution_stack) - 2 :
       /\ execution_stack[p].status = "WaitForExit"
       /\ execution_stack[p + 1].status = "ToBeExecuted"
       /\ execution_stack[p + 2].status = "WaitForExit"

\* The static import records of a module that resolve to a target.
RecordsTo(m, target) ==
  {i \in 1 .. Len(ImportRecords(module_table, m)) :
     /\ IsStatic(ImportRecords(module_table, m)[i].kind)
     /\ ImportRecords(module_table, m)[i].resolved_module = target}

\* C19: sort_modules pushes as many circular-dependency warnings as there are
\* distinct sets of modules among the chains it discovered: a cycle over the
\* same modules, discovered more than once, gives one warning.
C19_OneWarningPerCycleSet ==
  Done =>
    /\ Len(warnings) = Cardinality({Range(chain) : chain \in circular_dependencies})
    /\ \A a, b \in circular_dependencies : Range(a) = Range(b) => a = b

\* A cycle of two modules or more that two static import records of its last
\* module close, hence discovered twice, and warned about once.
C19_Witness ==
  /\ Done
  /\ Len(warnings) = 1
  /\ \E chain \in circular_dependencies :
       /\ Len(chain) >= 3
       /\ Cardinality(RecordsTo(chain[Len(chain) - 1], chain[1])) >= 2

\* The ToBeExecuted entries pushed for a module so far: one per entry of the
\* seed that names it and one per static import record of a visited module
\* that resolves to it.
PushesOf(id) ==
  Cardinality({p \in 1 .. Len(SeedStack(entries, RuntimeId)) :
                 SeedStack(entries, RuntimeId)[p].id = id})
    + Cardinality(UNION {{<<m, i>> : i \in RecordsTo(m, id)} :
                           m \in {v \in Range(visit_log) : IsNormal(v)}})

\* C20: whatever the number of ToBeExecuted entries pushed for a module, its
\* WaitForExit entry is pushed at most once, its import records are expanded
\* at most once and its order is assigned at most once; the assertions that
\* the module is not executing at its first visit and that its order is still
\* u32::MAX at the assignment never fail.
C20_VisitedOnce ==
  /\ \A i, j \in 1 .. Len(visit_log) : visit_log[i] = visit_log[j] => i = j
  /\ \A p, q \in 1 .. Len(execution_stack) :
       (/\ execution_stack[p].status = "WaitForExit"
        /\ execution_stack[q].status = "WaitForExit"
        /\ execution_stack[p].id = execution_stack[q].id) => p = q
  /\ \A p \in 1 .. Len(execution_stack) :
       execution_stack[p].status = "WaitForExit" => ~Assigned(execution_stack[p].id)
  /\ \A i, j \in 1 .. Len(sorted_modules) : sorted_modules[i] = sorted_modules[j] => i = j
  /\ next_exec_order = Cardinality(AssignedModules)
  /\ Len(visit_log) = next_exec_order
       + Cardinality({p \in 1 .. Len(execution_stack) :
                        execution_stack[p].status = "WaitForExit"})
  /\ "not executing twice" \notin failed_asserts
  /\ "exec_order == u32::MAX" \notin failed_asserts

\* A module that got two ToBeExecuted entries or more and one order.
C20_Witness ==
  /\ Done
  /\ \E id \in AssignedModules :
       /\ PushesOf(id) >= 2
       /\ id # Normal(RuntimeId)
       /\ Cardinality({i \in 1 .. Len(visit_log) : visit_log[i] = id}) = 1

(***************************************************************************)
(* Claims about the frame of an iteration, the closing assertion, the      *)
(* sorted list and the index map of sort_modules.                          *)
(***************************************************************************)
\* ToBeExecuted(m) is on top of the stack and m already has its order.
FinalizedOnTop ==
  /\ InLoop
  /\ Top(State).status = "ToBeExecuted"
  /\ Assigned(Top(State).id)

\* C21: the iteration that pops ToBeExecuted(m) for a module m that already
\* has its execution order removes that entry from the stack and changes
\* nothing else: nothing is pushed, no order is assigned, the counter, the
\* index map, the executed set and the sorted list stay as they are, no chain
\* is recorded and no assertion fails.
C21_FinalizedIsSkipped ==
  FinalizedOnTop =>
    LET after == LoopBody(State)
    IN /\ after.execution_stack = SubSeq(execution_stack, 1, Len(execution_stack) - 1)
       /\ after.module_table = module_table
       /\ after.next_exec_order = next_exec_order
       /\ after.stack_indexes_of_executing_id = stack_indexes_of_executing_id
       /\ after.executed_ids = executed_ids
       /\ after.sorted_modules = sorted_modules
       /\ after.circular_dependencies = circular_dependencies
       /\ after.failed_asserts = failed_asserts
       /\ after.visit_log = visit_log
       /\ Top(State).id \in executed_ids
       /\ Top(State).id \notin DOMAIN stack_indexes_of_executing_id

\* A finalized module with a static import record of its own is on top, above
\* the exit entry of another module.
C21_Witness ==
  /\ FinalizedOnTop
  /\ Len(execution_stack) >= 2
  /\ StaticImports(module_table, Top(State).id) # {}
  /\ stack_indexes_of_executing_id # <<>>

\* C22: the closing assertion of sort_modules holds for every input: when the
\* function has returned, self.sorted_modules is not empty and its first
\* element is the runtime module, whatever the entries and the module table.
C22_ClosingAssertionHolds ==
  Done =>
    /\ "runtime first" \notin failed_asserts
    /\ self_sorted_modules # <<>>
    /\ self_sorted_modules[1] = RuntimeId

\* The modules visited so far, by kind.
VisitedNormals == {id \in Range(visit_log) : IsNormal(id)}
VisitedExternals == {id \in Range(visit_log) : ~IsNormal(id)}

\* C23: when sort_modules has returned, the sorted list holds exactly the
\* visited normal modules, each once, in strictly increasing execution order;
\* a visited external module has an order of the same counter, distinct from
\* the order of every other module; at every step the exit entry of an
\* external module has nothing above it on the stack (nothing was pushed for
\* its dependencies), and no chain and no warning names an external module.
C23_SortedListAndExternals ==
  /\ \A p \in 1 .. Len(execution_stack) :
       (execution_stack[p].status = "WaitForExit" /\ ~IsNormal(execution_stack[p].id))
         => p = Len(execution_stack)
  /\ \A chain \in circular_dependencies :
       \A i \in 1 .. Len(chain) : IsNormal(chain[i])
  /\ Done =>
       /\ {Normal(self_sorted_modules[i]) : i \in 1 .. Len(self_sorted_modules)}
            = VisitedNormals
       /\ Len(self_sorted_modules) = Cardinality(VisitedNormals)
       /\ \A i, j \in 1 .. Len(self_sorted_modules) :
            i < j => ExecOrder(module_table, Normal(self_sorted_modules[i]))
                       < ExecOrder(module_table, Normal(self_sorted_modules[j]))
       /\ \A e \in VisitedExternals :
            /\ ExecOrder(module_table, e) < next_exec_order
            /\ \A id \in Range(visit_log) :
                 ExecOrder(module_table, id) = ExecOrder(module_table, e) => id = e
       /\ next_exec_order = Len(self_sorted_modules) + Cardinality(VisitedExternals)
       /\ \A w \in 1 .. Len(warnings) :
            \E chain \in circular_dependencies :
              /\ Len(warnings[w]) = Len(chain)
              /\ \A i \in 1 .. Len(chain) : warnings[w][i] = chain[i][2]

\* An external module numbered between two normal modules of the sorted list,
\* in a table with a cycle.
C23_Witness ==
  /\ Done
  /\ Len(self_sorted_modules) >= 2
  /\ circular_dependencies # {}
  /\ \E e \in VisitedExternals :
       /\ ExecOrder(module_table, Normal(self_sorted_modules[1]))
            < ExecOrder(module_table, e)
       /\ ExecOrder(module_table, e)
            < ExecOrder(module_table, Normal(self_sorted_modules[2]))

\* C24: at every step of the loop the keys of stack_indexes_of_executing_id
\* are exactly the modules with a WaitForExit entry on the stack, and the
\* index of a module is the position (from 0) of its WaitForExit entry; so
\* the slice execution_stack[index..] of the cycle collection is in bounds,
\* the assertion that a module is in the map when its WaitForExit entry is
\* popped holds, and the map is empty when the stack is.
C24_IndexMap ==
  /\ DOMAIN stack_indexes_of_executing_id =
       {execution_stack[p].id :
          p \in {q \in 1 .. Len(execution_stack) :
                   execution_stack[q].status = "WaitForExit"}}
  /\ \A id \in DOMAIN stack_indexes_of_executing_id :
       /\ stack_indexes_of_executing_id[id] + 1 \in 1 .. Len(execution_stack)
       /\ execution_stack[stack_indexes_of_executing_id[id] + 1] = WaitForExit(id)
  /\ AboutToCollect =>
       stack_indexes_of_executing_id[Top(State).id] <= Len(Popped(State).execution_stack)
  /\ "execution_stack[index..]" \notin failed_asserts
  /\ "contains_key" \notin failed_asserts
  /\ execution_stack = <<>> => DOMAIN stack_indexes_of_executing_id = {}

\* Two modules are executing with a ToBeExecuted entry between their exit
\* entries, after an earlier exit entry was popped and its key removed.
C24_Witness ==
  /\ InLoop
  /\ Top(State).status = "WaitForExit"
  /\ next_exec_order >= 1
  /\ \E a, b \in DOMAIN stack_indexes_of_executing_id :
       /\ stack_indexes_of_executing_id[b] >= stack_indexes_of_executing_id[a] + 2
       /\ execution_stack[stack_indexes_of_executing_id[a] + 2].status = "ToBeExecuted"

====
